---- MODULE Spec2Model ----
(***************************************************************************)
(* A model of the HtmlPage builder of src/lib.rs: a page owns a head and a *)
(* body sequence of boxed Html elements, add_title / add_html append to    *)
(* them, to_html_string and Display::fmt render them.                      *)
(*                                                                         *)
(* A Rust String is modelled as a sequence of one-character strings, so    *)
(* that concatenation, escaping and the literal envelope are computed      *)
(* character by character.                                                 *)
(***************************************************************************)
EXTENDS Naturals, Sequences, FiniteSets, TLC

\* Bounds of the model: how many elements the head and the body may hold,
\* and up to where consecutive to_html_string calls are counted.
MaxHead == 2
MaxBody == 2
MaxRenders == 2

----------------------------------------------------------------------------
(* String literals *)

\* String::new()
String_new == << >>

\* '<!DOCTYPE html><html><head>'
FMT_OPEN ==
    << "<", "!", "D", "O", "C", "T", "Y", "P", "E", " ", "h", "t", "m", "l", ">", "<", "h",
       "t", "m", "l", ">", "<", "h", "e", "a", "d", ">" >>

\* '</head><body>'
FMT_MID ==
    << "<", "/", "h", "e", "a", "d", ">", "<", "b", "o", "d", "y", ">" >>

\* '</body></html>'
FMT_CLOSE ==
    << "<", "/", "b", "o", "d", "y", ">", "<", "/", "h", "t", "m", "l", ">" >>

\* '<title>'
TITLE_OPEN ==
    << "<", "t", "i", "t", "l", "e", ">" >>

\* '</title>'
TITLE_CLOSE ==
    << "<", "/", "t", "i", "t", "l", "e", ">" >>

\* '<p>'
P_OPEN ==
    << "<", "p", ">" >>

\* '</p>'
P_CLOSE ==
    << "<", "/", "p", ">" >>

\* '&amp;'
AMP ==
    << "&", "a", "m", "p", ";" >>

\* '&lt;'
LT ==
    << "&", "l", "t", ";" >>

\* '&gt;'
GT ==
    << "&", "g", "t", ";" >>

\* 'article'
ARTICLE ==
    << "a", "r", "t", "i", "c", "l", "e" >>

\* 'div'
DIV ==
    << "d", "i", "v" >>

\* Texts the callers pass in.
\* 'My Page'
MyPage ==
    << "M", "y", " ", "P", "a", "g", "e" >>

\* 'Main Content:'
MainContent ==
    << "M", "a", "i", "n", " ", "C", "o", "n", "t", "e", "n", "t", ":" >>

\* 'Hello, World'
HelloWorld ==
    << "H", "e", "l", "l", "o", ",", " ", "W", "o", "r", "l", "d" >>

\* 'This is a simple HTML demo'
Demo ==
    << "T", "h", "i", "s", " ", "i", "s", " ", "a", " ", "s", "i", "m", "p", "l", "e", " ",
       "H", "T", "M", "L", " ", "d", "e", "m", "o" >>

\* '<a&b>'
Tricky ==
    << "<", "a", "&", "b", ">" >>

----------------------------------------------------------------------------
(* Elements: the implementors of trait Html held in Box<dyn Html>.  One    *)
(* record shape for every variant; the fields a variant lacks hold a       *)
(* neutral value.                                                          *)

\* HeadContent::Title { content }
Title(content) ==
    [kind |-> "Title", ctype |-> "None", level |-> 0, content |-> content,
     children |-> << >>]

\* Header(level, text)
Header(level, text) ==
    [kind |-> "Header", ctype |-> "None", level |-> level, content |-> text,
     children |-> << >>]

\* Paragraph(text)
Paragraph(text) ==
    [kind |-> "Paragraph", ctype |-> "None", level |-> 0, content |-> text,
     children |-> << >>]

\* Container::new(container_type): a container with no children
Container_new(container_type) ==
    [kind |-> "Container", ctype |-> container_type, level |-> 0,
     content |-> << >>, children |-> << >>]

\* HtmlContainer::add_html for Container: append to the single child sequence
Container_add_html(self, html) ==
    [self EXCEPT !.children = Append(@, html)]

\* The placeholder in a call record that carries no element.
NoHtml ==
    [kind |-> "None", ctype |-> "None", level |-> 0, content |-> << >>,
     children |-> << >>]

\* The lowercase tag name of a ContainerType
tag_name(container_type) ==
    CASE container_type = "Article" -> ARTICLE
      [] container_type = "Div" -> DIV

\* The decimal rendering of a header level 1..6
level_digit(level) ==
    << <<"1">>, <<"2">>, <<"3">>, <<"4">>, <<"5">>, <<"6">> >>[level]

\* The escaping of one character of element content
escape_char(c) ==
    CASE c = "&" -> AMP
      [] c = "<" -> LT
      [] c = ">" -> GT
      [] OTHER -> << c >>

\* The escaping of a text, applied once, character by character
RECURSIVE escape(_)
escape(text) ==
    IF text = << >> THEN << >>
    ELSE escape_char(Head(text)) \o escape(Tail(text))

\* Html::to_html_string of an element, and of a child sequence in order
RECURSIVE render_element(_)
RECURSIVE render_children(_)
render_element(element) ==
    CASE element.kind = "Title" ->
           TITLE_OPEN \o escape(element.content) \o TITLE_CLOSE
      [] element.kind = "Header" ->
           <<"<", "h">> \o level_digit(element.level) \o <<">">>
             \o escape(element.content)
             \o <<"<", "/", "h">> \o level_digit(element.level) \o <<">">>
      [] element.kind = "Paragraph" ->
           P_OPEN \o escape(element.content) \o P_CLOSE
      [] element.kind = "Container" ->
           <<"<">> \o tag_name(element.ctype) \o <<">">>
             \o render_children(element.children)
             \o <<"<", "/">> \o tag_name(element.ctype) \o <<">">>

render_children(children) ==
    IF children = << >> THEN << >>
    ELSE render_element(Head(children)) \o render_children(Tail(children))

\* The default methods of HtmlContainer on a Container, each a call of add_html
Container_add_header(self, level, text) ==
    Container_add_html(self, Header(level, text))

Container_add_paragraph(self, text) ==
    Container_add_html(self, Paragraph(text))

Container_add_container(self, container) ==
    Container_add_html(self, container)

----------------------------------------------------------------------------
(* The inputs of the model *)

\* Title texts: the example's title and one with every escaped character
Texts == { MyPage, Tricky }

\* Container::new(Article).add_header(2, "Hello, World")
\*     .add_paragraph("This is a simple HTML demo")
ExampleArticle ==
    Container_add_paragraph(
        Container_add_header(Container_new("Article"), 2, HelloWorld), Demo)

\* A div holding a paragraph and a div that holds a paragraph
NestedDiv ==
    Container_add_container(
        Container_add_paragraph(Container_new("Div"), Tricky),
        Container_add_paragraph(Container_new("Div"), MyPage))

\* Elements handed to add_html
Elements == { Header(1, MainContent), ExampleArticle, NestedDiv }

\* The elements the model builds: the titles of the texts and the elements
\* handed to add_html
ModelElements == { Title(t) : t \in Texts } \cup Elements

\* render_element of each of them, computed once
Rendered == [element \in ModelElements |-> render_element(element)]

\* element.to_html_string() through the Box<dyn Html>
element_to_html_string(element) ==
    IF element \in ModelElements THEN Rendered[element]
    ELSE render_element(element)

----------------------------------------------------------------------------
(* HtmlPage *)

\* HtmlPage::new
new == [head |-> << >>, body |-> << >>]

\* Default for HtmlPage
default == new

\* A variant of add_title that pushes the title onto the body
add_title_into_body(self, title_text) ==
    [self EXCEPT !.body = Append(@, Title(title_text))]

\* A variant of add_title that escapes the text when the title is built
add_title_escaped(self, title_text) ==
    [self EXCEPT !.head = Append(@, Title(escape(title_text)))]

\* HtmlPage::add_title
add_title(self, title_text) ==
    LET title == Title(title_text)
    IN  [self EXCEPT !.head = Append(@, title)]

\* A variant of add_html that inserts at the front: body.insert(0, html)
add_html_front(self, html) ==
    [self EXCEPT !.body = << html >> \o @]

\* A variant of add_html that pushes onto the head
add_html_into_head(self, html) ==
    [self EXCEPT !.head = Append(@, html)]

\* HtmlContainer::add_html for HtmlPage
add_html(self, html) ==
    [self EXCEPT !.body = Append(@, html)]

\* .iter().map(|element| element.to_html_string())
map_to_html_string(elements) ==
    [i \in 1..Len(elements) |-> element_to_html_string(elements[i])]

\* A variant of the fold whose closure is |acc, next| next + &acc
RECURSIVE fold_concat_prepend(_, _)
fold_concat_prepend(acc, strings) ==
    IF strings = << >> THEN acc
    ELSE fold_concat_prepend(Head(strings) \o acc, Tail(strings))

\* .fold(String::new(), |acc, next| acc + &next), from the accumulator acc
RECURSIVE fold_concat(_, _)
fold_concat(acc, strings) ==
    IF strings = << >> THEN acc
    ELSE fold_concat(acc \o Head(strings), Tail(strings))

\* A variant of the format string with a line break after each section
format_page_pretty(head, body) ==
    FMT_OPEN \o << "\n" >> \o head \o FMT_MID \o << "\n" >> \o body \o FMT_CLOSE

\* format!("<!DOCTYPE html><html><head>{}</head><body>{}</body></html>", ..)
format_page(head, body) ==
    FMT_OPEN \o head \o FMT_MID \o body \o FMT_CLOSE

\* Html::to_html_string for HtmlPage
to_html_string(self) ==
    LET head == fold_concat(String_new, map_to_html_string(self.head))
        body == fold_concat(String_new, map_to_html_string(self.body))
    IN  format_page(head, body)

\* A variant of fmt that writes the body renderings alone
fmt_body_only(self, f) ==
    f \o fold_concat(String_new, map_to_html_string(self.body))

\* Display::fmt for HtmlPage: write!(f, "{}", self.to_html_string()) appends
\* the string to what the formatter f already holds
fmt(self, f) ==
    f \o to_html_string(self)

\* The default methods of HtmlContainer on the page, each a call of add_html
add_header(self, level, text) == add_html(self, Header(level, text))

add_paragraph(self, text) == add_html(self, Paragraph(text))

add_container(self, container) == add_html(self, container)

----------------------------------------------------------------------------
(* State *)

VARIABLES
    page,     \* the owned HtmlPage: [head, body]
    calls,    \* the add calls issued on the page so far, in order
    lastOp,   \* the operation that ran last
    ret,      \* the String the last to_html_string call on this page state returned
    shown,    \* the String the last Display formatting of this page state wrote
    ncalls    \* to_html_string calls since the last add operation (up to MaxRenders)

vars == << page, calls, lastOp, ret, shown, ncalls >>

Init ==
    /\ \/ page = new /\ lastOp = "new"
       \/ page = default /\ lastOp = "default"
    /\ calls = << >>
    /\ ret = << >>
    /\ shown = << >>
    /\ ncalls = 0

\* page = page.add_title(title_text)
AddTitle ==
    /\ Len(page.head) < MaxHead
    /\ \E title_text \in Texts :
         /\ page' = add_title(page, title_text)
         /\ calls' = Append(calls, [op |-> "add_title", text |-> title_text,
                                    html |-> NoHtml])
    /\ lastOp' = "add_title"
    /\ ret' = << >>
    /\ shown' = << >>
    /\ ncalls' = 0

\* page = page.add_html(Box::new(html))
AddHtml ==
    /\ Len(page.body) < MaxBody
    /\ \E html \in Elements :
         /\ page' = add_html(page, html)
         /\ calls' = Append(calls, [op |-> "add_html", text |-> << >>,
                                    html |-> html])
    /\ lastOp' = "add_html"
    /\ ret' = << >>
    /\ shown' = << >>
    /\ ncalls' = 0

\* A variant of to_html_string that drains the head while rendering it
\* (drain(..) in place of iter())
ToHtmlString_draining ==
    /\ ret' = to_html_string(page)
    /\ page' = [page EXCEPT !.head = << >>]
    /\ lastOp' = "to_html_string"
    /\ ncalls' = IF ncalls < MaxRenders THEN ncalls + 1 ELSE ncalls
    /\ UNCHANGED << calls, shown >>

\* A variant of to_html_string that unwraps a reduce(..) of the renderings,
\* which has no value on an empty sequence
ToHtmlString_unwrap ==
    /\ page.head # << >>
    /\ page.body # << >>
    /\ ret' = to_html_string(page)
    /\ lastOp' = "to_html_string"
    /\ ncalls' = IF ncalls < MaxRenders THEN ncalls + 1 ELSE ncalls
    /\ UNCHANGED << page, calls, shown >>

\* ret = page.to_html_string(), through &self
ToHtmlString ==
    /\ ret' = to_html_string(page)
    /\ lastOp' = "to_html_string"
    /\ ncalls' = IF ncalls < MaxRenders THEN ncalls + 1 ELSE ncalls
    /\ UNCHANGED << page, calls, shown >>

\* shown = format!("{}", page), through &self
Fmt ==
    /\ shown' = fmt(page, String_new)
    /\ lastOp' = "fmt"
    /\ UNCHANGED << page, calls, ret, ncalls >>

Next ==
    \/ AddTitle
    \/ AddHtml
    \/ ToHtmlString
    \/ Fmt

Spec == Init /\ [][Next]_vars

----------------------------------------------------------------------------
(* What the claims are stated with *)

\* '<!DOCTYPE html><html><head></head><body></body></html>'
EMPTY_PAGE_HTML ==
    << "<", "!", "D", "O", "C", "T", "Y", "P", "E", " ", "h", "t", "m", "l", ">", "<", "h",
       "t", "m", "l", ">", "<", "h", "e", "a", "d", ">", "<", "/", "h", "e", "a", "d", ">",
       "<", "b", "o", "d", "y", ">", "<", "/", "b", "o", "d", "y", ">", "<", "/", "h", "t",
       "m", "l", ">" >>

\* '&lt;a&amp;b&gt;': the text '<a&b>' as it must appear in element content
TrickyEscaped ==
    << "&", "l", "t", ";", "a", "&", "a", "m", "p", ";", "b", "&", "g", "t", ";" >>

\* The characters a String of the model is made of
Chars ==
    { " ", "!", "\"", "#", "$", "%", "&", "'", "(", ")", "*", "+", ",",
      "-", ".", "/", "0", "1", "2", "3", "4", "5", "6", "7", "8", "9", ":",
      ";", "<", "=", ">", "?", "@", "A", "B", "C", "D", "E", "F", "G", "H",
      "I", "J", "K", "L", "M", "N", "O", "P", "Q", "R", "S", "T", "U", "V",
      "W", "X", "Y", "Z", "[", "\\", "]", "^", "_", "a", "b", "c",
      "d", "e", "f", "g", "h", "i", "j", "k", "l", "m", "n", "o", "p", "q",
      "r", "s", "t", "u", "v", "w", "x", "y", "z", "{", "|", "}", "~" } \cup { "\n" }

\* The renderings of a sequence of elements, first to last, nothing between
RECURSIVE ConcatInOrder(_)
ConcatInOrder(elements) ==
    IF elements = << >> THEN << >>
    ELSE element_to_html_string(Head(elements)) \o ConcatInOrder(Tail(elements))

\* The texts of the add_title calls and the elements of the add_html calls,
\* each in the order the calls were issued
TitleCalls(cs) == SelectSeq(cs, LAMBDA c : c.op = "add_title")

HtmlCalls(cs) == SelectSeq(cs, LAMBDA c : c.op = "add_html")

IssuedTitles == [i \in 1..Len(TitleCalls(calls)) |-> TitleCalls(calls)[i].text]

IssuedHtml == [i \in 1..Len(HtmlCalls(calls)) |-> HtmlCalls(calls)[i].html]

\* The page a sequence of add calls builds from an empty page
RECURSIVE Replay(_, _)
Replay(p, cs) ==
    IF cs = << >> THEN p
    ELSE Replay(IF Head(cs).op = "add_title" THEN add_title(p, Head(cs).text)
                ELSE add_html(p, Head(cs).html),
                Tail(cs))

\* s is t with one element appended
IsAppendOf(s, t) ==
    /\ Len(s) = Len(t) + 1
    /\ SubSeq(s, 1, Len(t)) = t

\* C1: rendering a page no add operation was applied to (from new() or from
\* default()) returns exactly <!DOCTYPE html><html><head></head><body></body></html>.
Thm_C1_EmptyPageRender ==
    (calls = << >> /\ lastOp = "to_html_string") => ret = EMPTY_PAGE_HTML

Wit_C1_EmptyPageRendered ==
    calls = << >> /\ lastOp = "to_html_string" /\ page = new

\* C2: to_html_string returns the opening literal, the head renderings in
\* insertion order, </head><body>, the body renderings in insertion order and
\* </body></html>, with nothing between or around the child renderings.
Thm_C2_RenderIsEnvelopeOfConcatenations ==
    lastOp = "to_html_string" =>
        ret = FMT_OPEN \o ConcatInOrder(page.head) \o FMT_MID
                \o ConcatInOrder(page.body) \o FMT_CLOSE

Wit_C2_RenderedTwoAndTwo ==
    /\ lastOp = "to_html_string"
    /\ Len(page.head) >= 2 /\ page.head[1] # page.head[2]
    /\ Len(page.body) >= 2 /\ page.body[1] # page.body[2]

\* C3: the head holds only Title elements made by add_title calls and the body
\* only elements passed to add_html; add_title leaves the body unchanged and
\* add_html leaves the head unchanged.
C3_NotMixed ==
    /\ \A i \in 1..Len(page.head) :
         /\ page.head[i].kind = "Title"
         /\ \E j \in 1..Len(calls) :
              calls[j].op = "add_title" /\ page.head[i] = Title(calls[j].text)
    /\ \A i \in 1..Len(page.body) :
         \E j \in 1..Len(calls) :
              calls[j].op = "add_html" /\ page.body[i] = calls[j].html

C3_Frame ==
    /\ lastOp' = "add_title" => page'.body = page.body
    /\ lastOp' = "add_html" => page'.head = page.head

\* C3: in every state head and body are not mixed, and every step keeps the
\* frame: add_title does not change the body, add_html does not change the head.
Thm_C3_HeadAndBodyNeverMixed ==
    [] C3_NotMixed /\ [][C3_Frame]_vars

Wit_C3_TitleAddedToPageWithBody ==
    lastOp = "add_title" /\ Len(page.body) >= 1 /\ Len(page.head) >= 1

\* C4: a page starts empty and every add call lengthens exactly one sequence by
\* one element at its end, the earlier contents staying as a prefix; the head
\* and the body list the added elements in the order the calls were issued.
C4_InOrder ==
    /\ calls = << >> => (page.head = << >> /\ page.body = << >>)
    /\ page.head = [i \in 1..Len(IssuedTitles) |-> Title(IssuedTitles[i])]
    /\ page.body = IssuedHtml

C4_AppendOnly ==
    \/ page' = page
    \/ /\ lastOp' = "add_title"
       /\ IsAppendOf(page'.head, page.head)
       /\ page'.head[Len(page'.head)] = Title(calls'[Len(calls')].text)
       /\ page'.body = page.body
    \/ /\ lastOp' = "add_html"
       /\ IsAppendOf(page'.body, page.body)
       /\ page'.body[Len(page'.body)] = calls'[Len(calls')].html
       /\ page'.head = page.head

\* C4: in every state head and body list the issued calls in order, and every
\* step that changes the page appends one element to the end of one sequence.
Thm_C4_AppendOnlyInCallOrder ==
    [] C4_InOrder /\ [][C4_AppendOnly]_vars

Wit_C4_FourCallsInterleaved ==
    /\ Len(calls) >= 4
    /\ calls[1].op = "add_html" /\ calls[2].op = "add_title"
    /\ calls[3].op = "add_html" /\ calls[4].op = "add_title"
    /\ page.body[1] # page.body[2]
    /\ page.head[1] # page.head[2]

\* C5: to_html_string leaves the head and the body unchanged, and repeated
\* calls with no add operation in between return identical strings.
C5_PureStep ==
    lastOp' = "to_html_string" =>
        /\ page' = page
        /\ ncalls >= 1 => ret' = ret

\* C5: every to_html_string step leaves the page unchanged and, when it
\* follows another with no add in between, returns the same string.
Thm_C5_RenderPureAndRepeatable ==
    [][C5_PureStep]_vars

Wit_C5_RenderedTwice ==
    ncalls >= 2 /\ lastOp = "to_html_string" /\ page.head # << >> /\ page.body # << >>

\* C6: rendering is total: on every reachable page, nested containers
\* included, to_html_string can be called and returns a string.
Thm_C6_RenderTotal ==
    /\ ENABLED ToHtmlString
    /\ to_html_string(page) \in Seq(Chars)
    /\ lastOp = "to_html_string" => ret \in Seq(Chars)

Wit_C6_RenderedNestedContainers ==
    /\ lastOp = "to_html_string"
    /\ \E i \in 1..Len(page.body) :
         /\ page.body[i].kind = "Container"
         /\ \E k \in 1..Len(page.body[i].children) :
              /\ page.body[i].children[k].kind = "Container"
              /\ page.body[i].children[k].children # << >>
    /\ ret \in Seq(Chars)

\* C7: add_title(text) succeeds for every text, appends exactly one Title to
\* the end of the head whose stored content is the text verbatim, and the text
\* is escaped when the page is rendered.
Thm_C7_TitleStoredVerbatimEscapedAtRender ==
    /\ Len(page.head) < MaxHead => ENABLED AddTitle
    /\ lastOp = "add_title" =>
         page.head[Len(page.head)].content = calls[Len(calls)].text
    /\ \A t \in Texts :
         LET p == add_title(page, t)
             escaped == IF t = Tricky THEN TrickyEscaped ELSE t
         IN  /\ IsAppendOf(p.head, page.head)
             /\ p.head[Len(p.head)].kind = "Title"
             /\ p.head[Len(p.head)].content = t
             /\ p.body = page.body
             /\ to_html_string(p) =
                  FMT_OPEN \o ConcatInOrder(page.head)
                    \o TITLE_OPEN \o escaped \o TITLE_CLOSE
                    \o FMT_MID \o ConcatInOrder(page.body) \o FMT_CLOSE

Wit_C7_TrickyTitleAddedAtEnd ==
    /\ lastOp = "add_title"
    /\ Len(page.head) >= 2
    /\ calls[Len(calls)].text = Tricky
    /\ page.head[Len(page.head)].content = Tricky

\* C9: head insertions and body insertions commute: add_title then add_html
\* renders as add_html then add_title, and the rendering depends only on the
\* order of the add_title calls among themselves and of the add_html calls
\* among themselves.
Thm_C9_HeadAndBodyInsertionsCommute ==
    /\ \A t \in Texts, e \in Elements :
         to_html_string(add_html(add_title(page, t), e))
           = to_html_string(add_title(add_html(page, e), t))
    /\ to_html_string(page)
         = to_html_string(Replay(new, TitleCalls(calls) \o HtmlCalls(calls)))
    /\ to_html_string(page)
         = to_html_string(Replay(new, HtmlCalls(calls) \o TitleCalls(calls)))

Wit_C9_HtmlBeforeTitle ==
    /\ Len(calls) >= 3
    /\ calls[1].op = "add_html" /\ calls[2].op = "add_title"
    /\ calls[3].op = "add_html"
    /\ lastOp = "to_html_string"

\* C10: Display writes exactly the string to_html_string returns, and
\* default() is in the state of new(): empty head, empty body.
Thm_C10_DisplayAgreesDefaultIsNew ==
    /\ lastOp = "fmt" =>
         /\ shown = to_html_string(page)
         /\ ncalls >= 1 => shown = ret
    /\ lastOp = "default" =>
         /\ page = new
         /\ page.head = << >>
         /\ page.body = << >>

Wit_C10_DisplayedAfterRender ==
    /\ lastOp = "fmt"
    /\ ncalls >= 1
    /\ page.head # << >>
    /\ page.body # << >>
    /\ shown = ret

----------------------------------------------------------------------------
(* The crate-level example *)

\* (the documented output, with its line breaks and indentation)
DOC_OUTPUT ==
    << "<", "!", "D", "O", "C", "T", "Y", "P", "E", " ", "h", "t", "m", "l", ">", "\n", "<",
       "h", "t", "m", "l", ">", "\n", " ", " ", " ", " ", "<", "h", "e", "a", "d", ">", "\n",
       " ", " ", " ", " ", " ", " ", " ", " ", "<", "t", "i", "t", "l", "e", ">", "M", "y",
       " ", "P", "a", "g", "e", "<", "/", "t", "i", "t", "l", "e", ">", "\n", " ", " ", " ",
       " ", "<", "/", "h", "e", "a", "d", ">", "\n", " ", " ", " ", " ", "<", "b", "o", "d",
       "y", ">", "\n", " ", " ", " ", " ", " ", " ", " ", " ", "<", "h", "1", ">", "M", "a",
       "i", "n", " ", "C", "o", "n", "t", "e", "n", "t", ":", "<", "/", "h", "1", ">", "\n",
       " ", " ", " ", " ", " ", " ", " ", " ", "<", "a", "r", "t", "i", "c", "l", "e", ">",
       "\n", " ", " ", " ", " ", " ", " ", " ", " ", " ", " ", " ", " ", "<", "h", "2", ">",
       "H", "e", "l", "l", "o", " ", "W", "o", "r", "l", "d", "<", "/", "h", "2", ">", "\n",
       " ", " ", " ", " ", " ", " ", " ", " ", " ", " ", " ", " ", "<", "p", ">", "T", "h",
       "i", "s", " ", "i", "s", " ", "a", " ", "s", "i", "m", "p", "l", "e", " ", "H", "T",
       "M", "L", " ", "d", "e", "m", "o", "<", "/", "p", ">", "\n", " ", " ", " ", " ", " ",
       " ", " ", " ", "<", "/", "a", "r", "t", "i", "c", "l", "e", ">", "\n", " ", " ", " ",
       " ", "<", "/", "b", "o", "d", "y", ">", "\n", "<", "/", "h", "t", "m", "l", ">" >>

\* HtmlPage::new().add_title("My Page").add_header(1, "Main Content:")
\*     .add_container(Container::new(ContainerType::Article)
\*         .add_header(2, "Hello, World")
\*         .add_paragraph("This is a simple HTML demo"))
DocExamplePage ==
    add_container(add_header(add_title(new, MyPage), 1, MainContent),
                  ExampleArticle)

IsWhitespace(c) == c \in { " ", "\n", "\t" }

\* s without the whitespace that stands between two tags: every run of
\* whitespace that follows a '>' or the start and precedes a '<' or the end
DropInterTagWhitespace(s) ==
    LET n == Len(s)
        Left[i \in 0..n] ==
            IF i = 0 THEN ""
            ELSE IF IsWhitespace(s[i]) THEN Left[i - 1] ELSE s[i]
        Right[i \in 1..(n + 1)] ==
            IF i = n + 1 THEN ""
            ELSE IF IsWhitespace(s[i]) THEN Right[i + 1] ELSE s[i]
        Dropped(i) ==
            /\ IsWhitespace(s[i])
            /\ Left[i] \in { "", ">" }
            /\ Right[i] \in { "", "<" }
        kept == SelectSeq([i \in 1..n |-> i], LAMBDA i : ~Dropped(i))
    IN  [k \in 1..Len(kept) |-> s[kept[k]]]

\* The documented output with the whitespace between its tags dropped
DocOutputDense == DropInterTagWhitespace(DOC_OUTPUT)

\* C8: the crate-level example page renders, whitespace between tags ignored,
\* to the documented output: <title>My Page</title> alone in the head, and in
\* the body <h1>Main Content:</h1> then <article> holding <h2>Hello World</h2>
\* and <p>This is a simple HTML demo</p>.
Cex_C8_DocExampleRendersAsDocumented ==
    (lastOp = "to_html_string" /\ page = DocExamplePage) =>
        DropInterTagWhitespace(ret) = DocOutputDense

====
